---- MODULE Spec2Model ----
(***************************************************************************)
(* Model of the fuzzy_finder crate: the two windowing engines              *)
(* (view/scrolling.rs, view/fixed.rs), the Render value (view/mod.rs),     *)
(* the selection session (lib.rs) and the selection list (list.rs).        *)
(*                                                                         *)
(* usize fields are modelled as naturals.  The only counter the code lets  *)
(* grow without limit is ScrollingView::skip (one step per up() call); it  *)
(* is capped by MaxSkip in the guard of the up() action, far below the     *)
(* 2^64 calls that a usize overflow would need.                            *)
(***************************************************************************)
EXTENDS Integers, Sequences, FiniteSets, TLC

VARIABLES
    strategy,     \* which windowing engine `view` is: "scrolling" or "fixed"
    view,         \* the engine's fields: capacity, index (and skip)
    items,        \* the list handed to the last render (or List::update) call
    result,       \* the Render value the last render call returned
    op,           \* the last call / session operation
    ups,          \* history: number of up() calls made on a fresh view
    moves,        \* history: the up()/down() calls since the last render
    panicked,     \* a slice index or usize subtraction panicked
    search_term,  \* FuzzyFinder::search_term, a sequence of chars
    all_items,    \* FuzzyFinder::all_items
    matches,      \* FuzzyFinder::matches
    outcome,      \* what FuzzyFinder::find returned, Pending before that
    escaped,      \* find's local `escaped`: the escape sequence read so far
    sel_list,     \* a list.rs List: capacity, items, index
    again,        \* history: the last call repeated the render before it
    twin,         \* a second view given the same calls, rendered after each
    strayed       \* history: up() was called with the cursor on the last entry

vars == <<strategy, view, items, result, op, ups, moves, panicked,
          search_term, all_items, matches, outcome, escaped, sel_list,
          again, twin, strayed>>

pairVars == <<twin, strayed>>

sessVars == <<search_term, all_items, matches, outcome, escaped>>

\* Option<T>, and the value of `outcome` while find has not returned
Some(x) == [kind |-> "Some", data |-> x]
None == [kind |-> "None", data |-> 0]
Pending == [kind |-> "Pending", data |-> 0]

(***************************************************************************)
(* Bounds                                                                  *)
(***************************************************************************)
\* longest list handed to render (13 = the A..M list of the unit tests)
MaxLen == 13
\* cap on ScrollingView::skip in the guard of up()
MaxSkip == 7
\* the capacities a view is constructed with (8 = the unit tests' value)
Capacities == {1, 2, 3, 8}

(***************************************************************************)
(* Helpers for usize arithmetic                                            *)
(***************************************************************************)
Min(a, b) == IF a < b THEN a ELSE b
Max(a, b) == IF a > b THEN a ELSE b

\* usize::saturating_sub
saturating_sub(a, b) == IF a > b THEN a - b ELSE 0

\* the slice &ITEMS[..n] of the tests' list "A", "B", ...: n distinct entries
Slice(n) == [i \in 1..n |-> i]

Lists == {Slice(n) : n \in 0..MaxLen}

(***************************************************************************)
(* view/mod.rs: enum Render<T>                                             *)
(***************************************************************************)
NoEntry == 0

\* Render::Empty
Empty == [kind |-> "Empty", above |-> <<>>, selected |-> NoEntry, below |-> <<>>]

\* Render::NonEmpty { above, selected, below }
NonEmpty(above, selected, below) ==
    [kind |-> "NonEmpty", above |-> above, selected |-> selected, below |-> below]

\* the value of `result` before any render has returned (or when it panicked)
NoRender == [kind |-> "None", above |-> <<>>, selected |-> NoEntry, below |-> <<>>]

\* Render::num_above
num_above(r) == IF r.kind = "NonEmpty" THEN Len(r.above) ELSE 0

\* Render::len
len(r) == IF r.kind = "NonEmpty" THEN Len(r.below) + 1 + Len(r.above) ELSE 0

\* a sequence back to front (Iterator::rev)
rev(seq) == [j \in 1..Len(seq) |-> seq[Len(seq) - j + 1]]

\* mutant: `below` is flattened without being reversed
into_iter_below_unreversed(r) ==
    IF r.kind = "NonEmpty"
    THEN [j \in 1..Len(r.above) |-> [flag |-> FALSE, item |-> rev(r.above)[j]]]
         \o <<[flag |-> TRUE, item |-> r.selected]>>
         \o [j \in 1..Len(r.below) |-> [flag |-> FALSE, item |-> r.below[j]]]
    ELSE <<>>

\* impl IntoIterator for Render: the rows top to bottom as (bool, T) pairs
into_iter(r) ==
    IF r.kind = "NonEmpty"
    THEN [j \in 1..Len(r.above) |-> [flag |-> FALSE, item |-> rev(r.above)[j]]]
         \o <<[flag |-> TRUE, item |-> r.selected]>>
         \o [j \in 1..Len(r.below) |-> [flag |-> FALSE, item |-> rev(r.below)[j]]]
    ELSE <<>>

\* the value of `twin` in the runs that drive a single view
NoTwin == [view |-> [capacity |-> 0, index |-> 0, skip |-> 0],
           sel |-> <<>>, calls |-> <<>>]

\* the value of `list` in the runs that build no List
NoList == [capacity |-> 0, items |-> <<>>, index |-> 0]

(***************************************************************************)
(* view/scrolling.rs: ScrollingView                                        *)
(***************************************************************************)
\* mutant: the assertion is missing
capacity_ok_always(capacity) == TRUE

\* assert!(capacity > 0) in ScrollingView::new and FixedView::new
capacity_ok(capacity) == capacity > 0

\* the value of `view` when the assertion failed and no view was built
NoView == [capacity |-> 0, index |-> 0, skip |-> 0]

\* ScrollingView::new (capacity > 0 is asserted)
ScrollingView_new(capacity) == [capacity |-> capacity, index |-> 0, skip |-> 0]

\* mutant: the test forgets the capacity, so a window that reaches past
\* the end of the list is not pulled back
clamp_skip_no_capacity(self, n) ==
    IF self.skip > n
    THEN saturating_sub(n, self.capacity)
    ELSE self.skip

\* mutant: a window past the end is reset to the start of the list
clamp_skip_to_zero(self, n) ==
    IF self.skip + self.capacity > n
    THEN 0
    ELSE self.skip

\* mutant: the window is never pulled back
clamp_skip_never(self, n) == self.skip

\* mutant: a window past the end is pulled back one row per call
clamp_skip_one_step(self, n) ==
    IF self.skip + self.capacity > n
    THEN saturating_sub(self.skip, 1)
    ELSE self.skip

\* render, first clamp: pull the window back when it reaches past the list
clamp_skip(self, n) ==
    IF self.skip + self.capacity > n
    THEN saturating_sub(n, self.capacity)
    ELSE self.skip

\* mutant: off by one, index is clamped to one past the last entry
clamp_index_off_by_one(self, skip, n) ==
    IF skip + self.index + 1 > n
    THEN n - skip
    ELSE self.index

\* mutant: index is clamped one entry early, off the last entry
clamp_index_short(self, skip, n) ==
    IF skip + self.index + 1 >= n
    THEN n - skip - 2
    ELSE self.index

\* render, second clamp: keep skip + index inside the list.  The usize
\* subtraction n - skip - 1 is only evaluated when the condition holds.
clamp_index(self, skip, n) ==
    IF skip + self.index + 1 > n
    THEN n - skip - 1
    ELSE self.index

\* mutant: the range starts at index instead of index + 1
scrolling_above_from_index(list, skip, index, capacity) ==
    LET avail == Len(list) - skip
        last  == Min(capacity, avail) - 1
    IN  [j \in 1..Max(0, last - index + 1) |-> list[skip + index + j]]

\* (index + 1 .. capacity).flat_map(|i| skipped.get(i)).collect()
\* where skipped = &items[skip..]; skipped[i] is list[skip + i + 1] here
scrolling_above(list, skip, index, capacity) ==
    LET avail == Len(list) - skip
        last  == Min(capacity, avail) - 1
    IN  [j \in 1..Max(0, last - index) |-> list[skip + index + j + 1]]

\* mutant: below is collected from the selection outwards
scrolling_below_reversed(list, skip, index) ==
    [j \in 1..index |-> list[skip + index - j + 1]]

\* skipped[0..index].iter().collect()
scrolling_below(list, skip, index) ==
    [j \in 1..index |-> list[skip + j]]

\* mutant: the empty branch resets index but not skip
ScrollingView_render_keeps_skip(self, list) ==
    IF Len(list) = 0
    THEN [view |-> [self EXCEPT !.index = 0], render |-> Empty, panic |-> FALSE]
    ELSE
      LET n     == Len(list)
          skip  == clamp_skip(self, n)
          index == clamp_index(self, skip, n)
      IN  [view |-> [self EXCEPT !.skip = skip, !.index = index],
           render |-> NonEmpty(scrolling_above(list, skip, index, self.capacity),
                               list[skip + index + 1],
                               scrolling_below(list, skip, index)),
           panic |-> FALSE]

\* mutant: selected is taken from the list, not from the skipped slice
ScrollingView_render_selected_unskipped(self, list) ==
    IF Len(list) = 0
    THEN [view |-> [self EXCEPT !.index = 0, !.skip = 0],
          render |-> Empty, panic |-> FALSE]
    ELSE
      LET n     == Len(list)
          skip  == clamp_skip(self, n)
          index == clamp_index(self, skip, n)
      IN  [view |-> [self EXCEPT !.skip = skip, !.index = index],
           render |-> NonEmpty(scrolling_above(list, skip, index, self.capacity),
                               list[index + 1],
                               scrolling_below(list, skip, index)),
           panic |-> FALSE]

\* ScrollingView::render.  Yields the view after the call, the value
\* returned and whether a slice operation or a usize subtraction panicked.
ScrollingView_render(self, list) ==
    IF Len(list) = 0
    THEN [view |-> [self EXCEPT !.index = 0, !.skip = 0],
          render |-> Empty, panic |-> FALSE]
    ELSE
      LET n     == Len(list)
          skip  == clamp_skip(self, n)
          index == clamp_index(self, skip, n)
          \* n - skip - 1 underflows, &items[skip..] is out of range,
          \* skipped[0..index] or skipped[index] is out of range
          oob   == \/ index < 0
                   \/ skip > n
                   \/ index > n - skip
                   \/ index >= n - skip
      IN  IF oob
          THEN [view |-> [self EXCEPT !.skip = skip, !.index = Max(0, index)],
                render |-> NoRender, panic |-> TRUE]
          ELSE [view |-> [self EXCEPT !.skip = skip, !.index = index],
                render |-> NonEmpty(scrolling_above(list, skip, index, self.capacity),
                                    list[skip + index + 1],
                                    scrolling_below(list, skip, index)),
                panic |-> FALSE]

\* mutant: up() stops at the top row instead of panning (as FixedView does)
ScrollingView_up_no_pan(self) ==
    IF self.index + 1 < self.capacity
    THEN [self EXCEPT !.index = self.index + 1]
    ELSE self

\* mutant: off by one, index may reach capacity before panning starts
ScrollingView_up_off_by_one(self) ==
    IF self.index + 1 <= self.capacity
    THEN [self EXCEPT !.index = self.index + 1]
    ELSE [self EXCEPT !.skip = self.skip + 1]

\* ScrollingView::up
ScrollingView_up(self) ==
    IF self.index + 1 < self.capacity
    THEN [self EXCEPT !.index = self.index + 1]
    ELSE [self EXCEPT !.skip = self.skip + 1]

\* mutant: down() at index 0 does not pan back
ScrollingView_down_no_pan(self) ==
    IF self.index > 0
    THEN [self EXCEPT !.index = self.index - 1]
    ELSE self

\* ScrollingView::down
ScrollingView_down(self) ==
    IF self.index > 0
    THEN [self EXCEPT !.index = self.index - 1]
    ELSE [self EXCEPT !.skip = saturating_sub(self.skip, 1)]

(***************************************************************************)
(* view/fixed.rs: FixedView                                                *)
(***************************************************************************)
\* FixedView::new (capacity > 0 is asserted)
FixedView_new(capacity) == [capacity |-> capacity, index |-> 0]

\* FixedView::render.  items[index + 1 .. capacity] panics when capacity
\* exceeds the length of the list.
FixedView_render(self, list) ==
    IF Len(list) = 0
    THEN [view |-> [self EXCEPT !.index = 0], render |-> Empty, panic |-> FALSE]
    ELSE
      LET n     == Len(list)
          index == IF self.index + 1 > n THEN n - 1 ELSE self.index
          oob   == \/ index > n
                   \/ index >= n
                   \/ index + 1 > self.capacity
                   \/ self.capacity > n
      IN  IF oob
          THEN [view |-> [self EXCEPT !.index = index],
                render |-> NoRender, panic |-> TRUE]
          ELSE [view |-> [self EXCEPT !.index = index],
                render |-> NonEmpty([j \in 1..(self.capacity - index - 1) |-> list[index + j + 1]],
                                    list[index + 1],
                                    [j \in 1..index |-> list[j]]),
                panic |-> FALSE]

\* mutant: up() wraps around to the first row at the top
FixedView_up_wraps(self) ==
    IF self.index + 1 < self.capacity
    THEN [self EXCEPT !.index = self.index + 1]
    ELSE [self EXCEPT !.index = 0]

\* FixedView::up
FixedView_up(self) ==
    IF self.index + 1 < self.capacity
    THEN [self EXCEPT !.index = self.index + 1]
    ELSE self

\* FixedView::down
FixedView_down(self) == [self EXCEPT !.index = saturating_sub(self.index, 1)]

(***************************************************************************)
(* Specification of a view driven through the View trait: a strategy and a *)
(* capacity are chosen at construction; then up(), down() and render(list) *)
(* are called in any order, with any list.  Capacity 0 fails the assertion *)
(* of new: the run starts panicked and no call follows.                    *)
(*   op   : the last call ("new", "up", "down", "render")                  *)
(*   ups  : k when the calls so far are exactly k up() calls, optionally   *)
(*          followed by one render; -1 otherwise (and for the fixed view   *)
(*          beyond MaxSkip calls, where the count is no longer kept)       *)
(*   moves: "none", "up" (exactly one up()), "down" (exactly one down())   *)
(*          or "other": the calls made since the last render or new        *)
(*   again: the last call was a render of the list that the call just      *)
(*          before it rendered                                             *)
(***************************************************************************)
Init ==
    /\ strategy \in {"scrolling", "fixed"}
    /\ \E capacity \in Capacities \cup {0} :
          /\ view = IF ~capacity_ok(capacity) THEN NoView
                    ELSE IF strategy = "scrolling"
                    THEN ScrollingView_new(capacity)
                    ELSE FixedView_new(capacity)
          /\ panicked = ~capacity_ok(capacity)
    /\ items = <<>>
    /\ result = NoRender
    /\ op = "new"
    /\ ups = 0
    /\ moves = "none"
    /\ search_term = <<>>
    /\ all_items = <<>>
    /\ matches = <<>>
    /\ outcome = Pending
    /\ escaped = ""
    /\ sel_list = NoList
    /\ again = FALSE
    /\ twin = NoTwin
    /\ strayed = FALSE

ScrollingUp ==
    /\ strategy = "scrolling" /\ ~panicked
    /\ view.skip < MaxSkip
    /\ view' = ScrollingView_up(view)
    /\ moves' = IF moves = "none" THEN "up" ELSE "other"
    /\ op' = "up"
    /\ ups' = IF ups >= 0 /\ op # "render" THEN ups + 1 ELSE -1
    /\ again' = FALSE
    /\ UNCHANGED <<strategy, items, result, panicked, sessVars, sel_list, pairVars>>

ScrollingDown ==
    /\ strategy = "scrolling" /\ ~panicked
    /\ view' = ScrollingView_down(view)
    /\ moves' = IF moves = "none" THEN "down" ELSE "other"
    /\ op' = "down"
    /\ ups' = -1
    /\ again' = FALSE
    /\ UNCHANGED <<strategy, items, result, panicked, sessVars, sel_list, pairVars>>

ScrollingRender ==
    /\ strategy = "scrolling" /\ ~panicked
    /\ \E list \in Lists :
          LET r == ScrollingView_render(view, list)
          IN  /\ view' = r.view
              /\ result' = r.render
              /\ panicked' = r.panic
              /\ items' = list
              /\ again' = (op = "render" /\ items = list)
    /\ moves' = "none"
    /\ op' = "render"
    /\ ups' = IF op = "render" THEN -1 ELSE ups
    /\ UNCHANGED <<strategy, sessVars, sel_list, pairVars>>

FixedUp ==
    /\ strategy = "fixed" /\ ~panicked
    /\ view' = FixedView_up(view)
    /\ moves' = IF moves = "none" THEN "up" ELSE "other"
    /\ op' = "up"
    /\ ups' = IF ups >= 0 /\ op # "render" /\ ups < MaxSkip THEN ups + 1 ELSE -1
    /\ again' = FALSE
    /\ UNCHANGED <<strategy, items, result, panicked, sessVars, sel_list, pairVars>>

FixedDown ==
    /\ strategy = "fixed" /\ ~panicked
    /\ view' = FixedView_down(view)
    /\ moves' = IF moves = "none" THEN "down" ELSE "other"
    /\ op' = "down"
    /\ ups' = -1
    /\ again' = FALSE
    /\ UNCHANGED <<strategy, items, result, panicked, sessVars, sel_list, pairVars>>

FixedRender ==
    /\ strategy = "fixed" /\ ~panicked
    /\ \E list \in Lists :
          LET r == FixedView_render(view, list)
          IN  /\ view' = r.view
              /\ result' = r.render
              /\ panicked' = r.panic
              /\ items' = list
              /\ again' = (op = "render" /\ items = list)
    /\ moves' = "none"
    /\ op' = "render"
    /\ ups' = IF op = "render" THEN -1 ELSE ups
    /\ UNCHANGED <<strategy, sessVars, sel_list, pairVars>>

Next ==
    \/ ScrollingUp
    \/ ScrollingDown
    \/ ScrollingRender
    \/ FixedUp
    \/ FixedDown
    \/ FixedRender

Spec == Init /\ [][Next]_vars

TypeOK ==
    /\ strategy \in {"scrolling", "fixed"}
    /\ view.capacity \in Capacities \cup {0}
    /\ view.index \in Nat
    /\ items \in Lists
    /\ op \in {"new", "up", "down", "render"}
    /\ panicked \in BOOLEAN

(***************************************************************************)
(* lib.rs: the selection session FuzzyFinder                               *)
(*                                                                         *)
(* find draws once and then handles one key per step: Ctrl-c, Ctrl-d,      *)
(* Enter, a char, Esc or Backspace.  `escaped` is "" outside an escape     *)
(* sequence, "^[" after Esc and "^[[" after Esc [; Esc [ A calls up() and  *)
(* Esc [ B calls down().  While `escaped` is "^[" the loop leaves as soon  *)
(* as it finds 100 microseconds elapsed, so whether the next key is still  *)
(* read is a race: both outcomes are steps of the model.  What the session *)
(* writes to the terminal (cursor positioning, colours, first,             *)
(* console_offset, positive_space_remaining) is left out.  lines_to_show   *)
(* is an i8 cast to usize; only positive values are drawn (0 fails the     *)
(* assertion of ScrollingView::new, a negative value becomes a capacity    *)
(* near 2^64).                                                             *)
(***************************************************************************)
\* most items a session is started with
MaxItems == 4
\* longest query typed
MaxQuery == 2
\* the values of lines_to_show a session is started with
SessionLines == {1, 2, 3}

\* characters that can be typed; "é" is encoded in two bytes, and
\* "[", "A", "B" are the chars the arrow keys send after Esc
Alphabet == {"a", "b", "é", "[", "A", "B"}

\* char::len_utf8
len_utf8(c) == IF c = "é" THEN 2 ELSE 1

\* item::Item::new
Item_new(name, data) == [name |-> name, data |-> data]

\* item::Item::with_score
with_score(self, score, fuzzy_indices) ==
    [item |-> self, score |-> score, fuzzy_indices |-> fuzzy_indices]

\* the item names sessions are started with; the payload of the i-th is i
AllNames ==
    << <<"a", "b">>, <<"b", "a">>, <<"b">>, <<"a", "a", "b">>,
       <<"é", "a">>, <<"a">>, <<"b", "b">> >>

ItemLists == { [i \in 1..n |-> Item_new(AllNames[i], i)] : n \in 0..MaxItems }

\* The scorer (SkimMatcherV2::fuzzy_indices) is an external collaborator.
\* It is modelled by its interface: a pure function of (choice, pattern)
\* that matches when the pattern is a subsequence of the choice and yields
\* a score and the matched char positions; the empty pattern matches
\* everything with score 0.
RECURSIVE leftmost(_, _, _)
leftmost(choice, pattern, from) ==
    IF pattern = <<>>
    THEN [ok |-> TRUE, pos |-> <<>>]
    ELSE LET cand == {i \in from..Len(choice) : choice[i] = Head(pattern)}
         IN  IF cand = {}
             THEN [ok |-> FALSE, pos |-> <<>>]
             ELSE LET i    == CHOOSE c \in cand : \A d \in cand : c <= d
                      rest == leftmost(choice, Tail(pattern), i + 1)
                  IN  [ok |-> rest.ok, pos |-> <<i - 1>> \o rest.pos]

fuzzy_indices(choice, pattern) ==
    LET m == leftmost(choice, pattern, 1)
    IN  IF ~m.ok
        THEN [some |-> FALSE, score |-> 0, positions |-> <<>>]
        ELSE IF pattern = <<>>
        THEN [some |-> TRUE, score |-> 0, positions |-> <<>>]
        ELSE [some |-> TRUE,
              score |-> 16 * Len(pattern) - m.pos[1]
                        - (m.pos[Len(m.pos)] - m.pos[1] + 1 - Len(pattern)),
              positions |-> m.pos]

\* mutant: an unstable insertion, x goes in front of equal scores
RECURSIVE insert_by_score_unstable(_, _)
insert_by_score_unstable(sorted, x) ==
    IF sorted = <<>>
    THEN <<x>>
    ELSE IF Head(sorted).score > x.score
    THEN <<Head(sorted)>> \o insert_by_score_unstable(Tail(sorted), x)
    ELSE <<x>> \o sorted

\* slice::sort_by(|a, b| b.score.cmp(&a.score)): a stable sort, descending
\* by score.  insert puts x behind every element whose score is >= its own.
RECURSIVE insert_by_score(_, _)
insert_by_score(sorted, x) ==
    IF sorted = <<>>
    THEN <<x>>
    ELSE IF Head(sorted).score >= x.score
    THEN <<Head(sorted)>> \o insert_by_score(Tail(sorted), x)
    ELSE <<x>> \o sorted

RECURSIVE sort_by_score(_)
sort_by_score(seq) ==
    IF seq = <<>>
    THEN <<>>
    ELSE insert_by_score(sort_by_score(SubSeq(seq, 1, Len(seq) - 1)), seq[Len(seq)])

\* the flat_map of update_matches: the items the scorer accepts, in input order
RECURSIVE scored(_, _)
scored(all, term) ==
    IF all = <<>>
    THEN <<>>
    ELSE LET m == fuzzy_indices(Head(all).name, term)
         IN  (IF m.some THEN <<with_score(Head(all), m.score, m.positions)>> ELSE <<>>)
             \o scored(Tail(all), term)

\* FuzzyFinder::update_matches
update_matches(all, term) == sort_by_score(scored(all, term))

\* String length in bytes
RECURSIVE byte_len(_)
byte_len(str) == IF str = <<>> THEN 0 ELSE len_utf8(Head(str)) + byte_len(Tail(str))

\* &str[..end] with end a byte offset: the chars of the prefix, or a panic
\* when end is not on a char boundary
byte_prefix(str, end) ==
    LET cuts == {k \in 0..Len(str) : byte_len(SubSeq(str, 1, k)) = end}
    IN  IF cuts = {}
        THEN [panic |-> TRUE, str |-> str]
        ELSE [panic |-> FALSE, str |-> SubSeq(str, 1, CHOOSE k \in cuts : TRUE)]

\* the query edit of FuzzyFinder::backspace
backspace_term(term) ==
    IF Len(term) > 0
    THEN byte_prefix(term, Len(term) - 1)
    ELSE [panic |-> FALSE, str |-> term]

\* FuzzyFinder::render, as far as it touches the view: render_items calls
\* view.render(&matches) and computes num_blank = capacity - list.len()
session_render(v, ms) ==
    LET r == ScrollingView_render(v, ms)
    IN  [view |-> r.view, render |-> r.render,
         panic |-> r.panic \/ len(r.render) > r.view.capacity]

\* FuzzyFinder::new and the locals of find: the state before the first draw
SessionInit ==
    /\ strategy = "scrolling"
    /\ \E lines_to_show \in SessionLines : view = ScrollingView_new(lines_to_show)
    /\ all_items \in ItemLists
    /\ search_term = <<>>
    /\ matches = <<>>
    /\ items = <<>>
    /\ result = NoRender
    /\ op = "new"
    /\ ups = -1
    /\ moves = "none"
    /\ panicked = FALSE
    /\ outcome = Pending
    /\ escaped = ""
    /\ sel_list = NoList
    /\ again = FALSE
    /\ twin = NoTwin
    /\ strayed = FALSE

\* mutant: the window is rendered before the ranked list is rebuilt
Redraw_render_first(v, term) ==
    LET ms == update_matches(all_items, term)
        r  == session_render(v, matches)
    IN  /\ matches' = ms
        /\ view' = r.view
        /\ result' = r.render
        /\ panicked' = r.panic

\* mutant: update_matches extends the old list without clearing it
Redraw_no_clear(v, term) ==
    LET ms == sort_by_score(matches \o scored(all_items, term))
        r  == session_render(v, ms)
    IN  /\ matches' = ms
        /\ view' = r.view
        /\ result' = r.render
        /\ panicked' = r.panic

\* update_matches(); render(): the tail of every session operation
Redraw(v, term) ==
    LET ms == update_matches(all_items, term)
        r  == session_render(v, ms)
    IN  /\ matches' = ms
        /\ view' = r.view
        /\ result' = r.render
        /\ panicked' = r.panic

Running == outcome = Pending /\ ~panicked

\* find: state.update_matches(); state.render()
InitialDraw ==
    /\ Running /\ op = "new"
    /\ Redraw(view, search_term)
    /\ op' = "draw"
    /\ UNCHANGED <<sel_list, again, pairVars,
                   strategy, items, ups, moves, search_term, all_items,
                   outcome, escaped>>

\* Key::Char('A') closing the sequence "^[[A": FuzzyFinder::up
SessionUp ==
    /\ Running /\ op # "new"
    /\ escaped = "^[["
    /\ escaped' = ""
    /\ Redraw(ScrollingView_up(view), search_term)
    /\ op' = "up"
    /\ UNCHANGED <<sel_list, again, pairVars,
                   strategy, items, ups, moves, search_term, all_items, outcome>>

\* Key::Char('B') closing the sequence "^[[B": FuzzyFinder::down
SessionDown ==
    /\ Running /\ op # "new"
    /\ escaped = "^[["
    /\ escaped' = ""
    /\ Redraw(ScrollingView_down(view), search_term)
    /\ op' = "down"
    /\ UNCHANGED <<sel_list, again, pairVars,
                   strategy, items, ups, moves, search_term, all_items, outcome>>

\* mutant: append starts over with a fresh view
SessionAppend_resets_cursor ==
    /\ Running /\ op # "new"
    /\ escaped = ""
    /\ Len(search_term) < MaxQuery
    /\ \E c \in Alphabet :
          /\ search_term' = Append(search_term, c)
          /\ Redraw(ScrollingView_new(view.capacity), Append(search_term, c))
    /\ op' = "append"
    /\ UNCHANGED <<sel_list, again, pairVars,
                   strategy, items, ups, moves, all_items,
                   outcome, escaped>>

\* Key::Char(c) outside an escape sequence: FuzzyFinder::append
SessionAppend ==
    /\ Running /\ op # "new"
    /\ escaped = ""
    /\ Len(search_term) < MaxQuery
    /\ \E c \in Alphabet :
          /\ search_term' = Append(search_term, c)
          /\ Redraw(view, Append(search_term, c))
    /\ op' = "append"
    /\ UNCHANGED <<sel_list, again, pairVars,
                   strategy, items, ups, moves, all_items, outcome, escaped>>

\* Key::Backspace: FuzzyFinder::backspace
SessionBackspace ==
    /\ Running /\ op # "new"
    /\ LET b == backspace_term(search_term)
       IN  IF b.panic
           THEN /\ panicked' = TRUE
                /\ UNCHANGED <<search_term, matches, view, result>>
           ELSE /\ search_term' = b.str
                /\ Redraw(view, b.str)
    /\ op' = "backspace"
    /\ UNCHANGED <<sel_list, again, pairVars,
                   strategy, items, ups, moves, all_items, outcome, escaped>>

\* Key::Esc: an escape sequence starts, unless one is being read
SessionEsc ==
    /\ Running /\ op # "new"
    /\ escaped' = IF escaped = "" THEN "^[" ELSE escaped
    /\ op' = "esc"
    /\ UNCHANGED <<sel_list, again, pairVars,
                   strategy, view, items, result, ups, moves, panicked,
                   search_term, all_items, matches, outcome>>

\* Key::Char(c) inside an escape sequence, other than the closing A or B:
\* "[" after Esc continues the sequence, anything else abandons it
SessionEscapedChar ==
    /\ Running /\ op # "new"
    /\ escaped # ""
    /\ \E c \in Alphabet :
          /\ ~(escaped = "^[[" /\ c \in {"A", "B"})
          /\ escaped' = IF escaped = "^[" /\ c = "[" THEN "^[[" ELSE ""
    /\ op' = "escaped_char"
    /\ UNCHANGED <<sel_list, again, pairVars,
                   strategy, view, items, result, ups, moves, panicked,
                   search_term, all_items, matches, outcome>>

\* find, Key::Char('\n')
SessionConfirm ==
    /\ Running /\ op # "new"
    /\ IF matches # <<>>
       THEN LET r == ScrollingView_render(view, matches)
            IN  /\ view' = r.view
                /\ result' = r.render
                /\ panicked' = r.panic
                /\ outcome' = IF r.panic THEN outcome
                              ELSE Some(r.render.selected.item.data)
       ELSE /\ outcome' = None
            /\ UNCHANGED <<view, result, panicked>>
    /\ op' = "confirm"
    /\ UNCHANGED <<sel_list, again, pairVars,
                   strategy, items, ups, moves, search_term, all_items,
                   matches, escaped>>

\* mutant: leaving with Ctrl-c or Ctrl-d accepts the current selection
SessionCancel_yields_selection ==
    /\ Running /\ op # "new"
    /\ outcome' = IF matches # <<>>
                  THEN Some(matches[view.skip + view.index + 1].item.data)
                  ELSE None
    /\ \E key \in {"ctrl_c", "ctrl_d"} : op' = key
    /\ UNCHANGED <<sel_list, again, pairVars,
                   strategy, view, items, result, ups, moves, panicked,
                   search_term, all_items, matches, escaped>>

\* find, Key::Ctrl('c') and Key::Ctrl('d'): break, then Ok(None)
SessionCancel ==
    /\ Running /\ op # "new"
    /\ outcome' = None
    /\ \E key \in {"ctrl_c", "ctrl_d"} : op' = key
    /\ UNCHANGED <<sel_list, again, pairVars,
                   strategy, view, items, result, ups, moves, panicked,
                   search_term, all_items, matches, escaped>>

\* find, top of the loop: a lone Esc, 100 microseconds old: break, then Ok(None)
SessionEscTimeout ==
    /\ Running /\ op # "new"
    /\ escaped = "^["
    /\ outcome' = None
    /\ op' = "esc_timeout"
    /\ UNCHANGED <<sel_list, again, pairVars,
                   strategy, view, items, result, ups, moves, panicked,
                   search_term, all_items, matches, escaped>>

SessionNext ==
    \/ InitialDraw
    \/ SessionUp
    \/ SessionDown
    \/ SessionAppend
    \/ SessionBackspace
    \/ SessionEsc
    \/ SessionEscapedChar
    \/ SessionConfirm
    \/ SessionCancel
    \/ SessionEscTimeout

SpecSession == SessionInit /\ [][SessionNext]_vars

SessionTypeOK ==
    /\ view.capacity \in SessionLines
    /\ Len(search_term) <= MaxQuery
    /\ Len(matches) <= Len(all_items)

(***************************************************************************)
(* list.rs: List, the selection list that holds its own copy of the top    *)
(* `capacity` matches                                                      *)
(***************************************************************************)
\* List::new (capacity > 0 is asserted)
List_new(capacity) == [capacity |-> capacity, items |-> <<>>, index |-> 0]

\* List::up
List_up(self) ==
    IF self.items # <<>>
    THEN [self EXCEPT !.index = Min(self.index + 1, Len(self.items) - 1)]
    ELSE self

\* List::down
List_down(self) ==
    IF self.items # <<>>
    THEN [self EXCEPT !.index = saturating_sub(self.index, 1)]
    ELSE self

\* mutant: update does not re-validate index
List_update_keeps_index(self, ms) ==
    [self EXCEPT !.items = SubSeq(ms, 1, Min(self.capacity, Len(ms)))]

\* List::update
List_update(self, ms) ==
    LET taken == SubSeq(ms, 1, Min(self.capacity, Len(ms)))
    IN  [self EXCEPT !.items = taken,
                     !.index = IF Len(taken) >= 1
                               THEN Min(self.index, Len(taken) - 1)
                               ELSE 0]

\* List::items: the stored items (kept bottom to top) from top to bottom
List_items(self) == rev(self.items)

\* List::tagged_iter: the items top to bottom, each with a flag that compares
\* its 0-based place from the top with index_from_top = len - index
tagged_iter(self) ==
    LET index_from_top == Len(self.items) - self.index
    IN  [j \in 1..Len(self.items) |->
            [flag |-> (j - 1 = index_from_top), item |-> List_items(self)[j]]]

\* List::get_selected: items.get(index).unwrap(), a panic on an empty list
get_selected(self) ==
    IF self.index < Len(self.items)
    THEN [panic |-> FALSE, item |-> self.items[self.index + 1]]
    ELSE [panic |-> TRUE, item |-> NoEntry]

\* a List is built with some capacity > 0; then up(), down() and
\* update(matches) are called in any order, with any matches
ListInit ==
    /\ strategy = "list"
    /\ \E capacity \in Capacities : sel_list = List_new(capacity)
    /\ items = <<>>
    /\ op = "new"
    /\ view = NoView
    /\ result = NoRender
    /\ ups = -1
    /\ moves = "none"
    /\ panicked = FALSE
    /\ search_term = <<>>
    /\ all_items = <<>>
    /\ matches = <<>>
    /\ outcome = Pending
    /\ escaped = ""
    /\ again = FALSE
    /\ twin = NoTwin
    /\ strayed = FALSE

ListUp ==
    /\ sel_list' = List_up(sel_list)
    /\ op' = "up"
    /\ UNCHANGED <<strategy, view, items, result, ups, moves, panicked, sessVars,
                   again, pairVars>>

ListDown ==
    /\ sel_list' = List_down(sel_list)
    /\ op' = "down"
    /\ UNCHANGED <<strategy, view, items, result, ups, moves, panicked, sessVars,
                   again, pairVars>>

ListUpdate ==
    /\ \E ms \in Lists :
          /\ sel_list' = List_update(sel_list, ms)
          /\ items' = ms
    /\ op' = "update"
    /\ UNCHANGED <<strategy, view, result, ups, moves, panicked, sessVars,
                   again, pairVars>>

ListNext ==
    \/ ListUp
    \/ ListDown
    \/ ListUpdate

SpecList == ListInit /\ [][ListNext]_vars

(***************************************************************************)
(* Two scrolling views of one capacity on one fixed list, given the same   *)
(* up()/down() calls.  `view` is rendered only when the sequence ends;     *)
(* `twin.view` is rendered after every call.  The render that ends a       *)
(* sequence starts the next one: both views continue from its state.       *)
(*   twin.sel  : the list positions selected by the last renders of the    *)
(*               twin (at most 3, oldest first; -1 for an empty render)    *)
(*   twin.calls: the calls that led to those renders (at most 2)           *)
(*   strayed   : some up() of the current sequence (of the sequence just   *)
(*               ended, when the last call is the render) was made with    *)
(*               the cursor of `view` already on, or past, the last entry  *)
(***************************************************************************)
\* the last k elements of a sequence
last_of(seq, k) == SubSeq(seq, Max(1, Len(seq) - k + 1), Len(seq))

\* the list position of the entry a render returned as selected
selected_position(r, v) == IF r.kind = "NonEmpty" THEN v.skip + v.index ELSE -1

\* moved is twin.view after up() or down(): render it and record the call
twin_render(t, call, moved, list) ==
    LET r == ScrollingView_render(moved, list)
    IN  [twin  |-> [view  |-> r.view,
                    sel   |-> last_of(Append(t.sel, selected_position(r.render, r.view)), 3),
                    calls |-> last_of(Append(t.calls, call), 2)],
         panic |-> r.panic]

PairInit ==
    /\ strategy = "scrolling"
    /\ \E capacity \in Capacities :
          /\ view = ScrollingView_new(capacity)
          /\ twin = [view |-> ScrollingView_new(capacity), sel |-> <<>>, calls |-> <<>>]
    /\ items \in Lists
    /\ result = NoRender
    /\ op = "new"
    /\ strayed = FALSE
    /\ again = FALSE
    /\ ups = -1
    /\ moves = "none"
    /\ panicked = FALSE
    /\ search_term = <<>>
    /\ all_items = <<>>
    /\ matches = <<>>
    /\ outcome = Pending
    /\ escaped = ""
    /\ sel_list = NoList

\* up() on both views, render on the twin
PairUp ==
    /\ ~panicked
    /\ view.skip < MaxSkip
    /\ view' = ScrollingView_up(view)
    /\ LET t == twin_render(twin, "up", ScrollingView_up(twin.view), items)
       IN  twin' = t.twin /\ panicked' = t.panic
    /\ strayed' = ((op # "render" /\ strayed)
                      \/ view.skip + view.index >= Len(items) - 1)
    /\ op' = "up"
    /\ UNCHANGED <<strategy, items, result, ups, moves, sessVars, sel_list, again>>

\* down() on both views, render on the twin
PairDown ==
    /\ ~panicked
    /\ view' = ScrollingView_down(view)
    /\ LET t == twin_render(twin, "down", ScrollingView_down(twin.view), items)
       IN  twin' = t.twin /\ panicked' = t.panic
    /\ op' = "down"
    /\ strayed' = (op # "render" /\ strayed)
    /\ UNCHANGED <<strategy, items, result, ups, moves, sessVars, sel_list, again>>

\* the render that ends the sequence of calls
PairRender ==
    /\ ~panicked
    /\ LET r == ScrollingView_render(view, items)
       IN  /\ view' = r.view
           /\ result' = r.render
           /\ panicked' = r.panic
           /\ twin' = [view  |-> r.view,
                       sel   |-> last_of(Append(twin.sel,
                                     selected_position(r.render, r.view)), 3),
                       calls |-> last_of(Append(twin.calls, "render"), 2)]
    /\ strayed' = (op # "render" /\ strayed)
    /\ op' = "render"
    /\ UNCHANGED <<strategy, items, ups, moves, sessVars, sel_list, again>>

PairNext ==
    \/ PairUp
    \/ PairDown
    \/ PairRender

SpecPair == PairInit /\ [][PairNext]_vars

(***************************************************************************)
(* Properties                                                              *)
(***************************************************************************)
\* the 0-based position of entry e in a list of distinct entries
position(list, e) == (CHOOSE i \in 1..Len(list) : list[i] = e) - 1

\* the 0-based list position a view points at
selection(v) == IF strategy = "scrolling" THEN v.skip + v.index ELSE v.index

\* C1: scrolling view, after every render(list), whatever up()/down() calls
\* and lists came before: the call did not panic, and on a non-empty list
\* skip + index < list.length, index < capacity and
\* skip <= max(0, list.length - capacity).
C1_ScrollingRenderInBounds ==
    (strategy = "scrolling" /\ op = "render") =>
        /\ ~panicked
        /\ items # <<>> =>
              /\ result.kind = "NonEmpty"
              /\ view.skip + view.index < Len(items)
              /\ view.index < view.capacity
              /\ view.skip <= Max(0, Len(items) - view.capacity)

\* a render on a list shorter than the capacity after more up() calls than
\* the list is long: both clamps act
C1_Witness ==
    /\ strategy = "scrolling" /\ op = "render"
    /\ items # <<>>
    /\ Len(items) < view.capacity
    /\ ups > Len(items) /\ ups >= view.capacity
    /\ view.index = Len(items) - 1

\* C2: scrolling view, every rendered window has at most capacity rows, and
\* for a non-empty list exactly min(capacity, list.length) rows.
C2_WindowLength ==
    (strategy = "scrolling" /\ op = "render" /\ ~panicked) =>
        /\ len(result) <= view.capacity
        /\ items # <<>> => len(result) = Min(view.capacity, Len(items))

\* a full window that has panned away from the start of a longer list
C2_Witness ==
    /\ strategy = "scrolling" /\ op = "render"
    /\ view.skip > 0
    /\ Len(items) > view.capacity
    /\ len(result) = view.capacity

\* C3: both strategies, render on an empty list returns Render::Empty and
\* resets index to 0 (and skip to 0 for the scrolling view).
C3_EmptyListReset ==
    (op = "render" /\ items = <<>>) =>
        /\ ~panicked
        /\ result = Empty
        /\ view.index = 0
        /\ strategy = "scrolling" => view.skip = 0

\* an empty list rendered by a scrolling view that had index > 0 and skip > 0
C3_Witness ==
    /\ strategy = "scrolling" /\ op = "render" /\ items = <<>>
    /\ view.capacity > 1
    /\ ups > view.capacity
    /\ result = Empty

\* the view state is coherent with the ranked list
Coherent ==
    IF matches = <<>>
    THEN view.index = 0 /\ view.skip = 0
    ELSE view.skip + view.index < Len(matches) /\ view.index < view.capacity

\* C4: session, after every operation (initial draw, append, backspace, up,
\* down) the view is coherent with the ranked list: index = 0 and skip = 0
\* when it is empty, else skip + index < its length and index < capacity.
C4_SessionCoherent == Coherent

\* an append shrank the ranked list under a cursor that sat on a later entry
C4_Witness ==
    /\ op = "append"
    /\ matches # <<>>
    /\ Len(matches) < Len(all_items)
    /\ view.index > 0
    /\ view.skip + view.index = Len(matches) - 1

\* C5: scrolling view, k up() calls on a fresh view followed by render(list)
\* on n > 0 entries select the entry at position min(k, n - 1).
C5_UpsThenRender ==
    (strategy = "scrolling" /\ op = "render" /\ ups >= 0 /\ items # <<>>) =>
        /\ result.kind = "NonEmpty"
        /\ result.selected = items[Min(ups, Len(items) - 1) + 1]

\* more up() calls than entries: the selection saturates on the last entry
C5_Witness ==
    /\ strategy = "scrolling" /\ op = "render"
    /\ Len(items) >= 2
    /\ ups > Len(items)
    /\ result.selected = items[Len(items)]

\* C6: scrolling view, fresh, list of n >= capacity entries: after
\* k <= capacity - 1 up() calls render reports num_above = capacity - 1 - k;
\* after k >= n up() calls render leaves index = capacity - 1 and
\* skip = n - capacity, with a window of the last capacity entries and
\* num_above = 0.
C6_UpsOnLongList ==
    (strategy = "scrolling" /\ op = "render" /\ ups >= 0
       /\ Len(items) >= view.capacity) =>
        /\ ups <= view.capacity - 1 =>
              num_above(result) = view.capacity - 1 - ups
        /\ ups >= Len(items) =>
              /\ view.index = view.capacity - 1
              /\ view.skip = Len(items) - view.capacity
              /\ len(result) = view.capacity
              /\ num_above(result) = 0
              /\ result.selected = items[Len(items)]
              /\ result.below =
                    SubSeq(items, Len(items) - view.capacity + 1, Len(items) - 1)

\* the unit test: capacity 8, 13 entries, 13 up() calls
C6_Witness ==
    /\ strategy = "scrolling" /\ op = "render"
    /\ ups = 13 /\ Len(items) = 13
    /\ view = [capacity |-> 8, index |-> 7, skip |-> 5]
    /\ num_above(result) = 0

\* C7, as stated: scrolling view, capacity 8, list of 3 entries: after any
\* sequence of up()/down() calls render returns a window of length 3 with
\* num_above = 0.
C7_Original ==
    (strategy = "scrolling" /\ op = "render" /\ view.capacity = 8
       /\ Len(items) = 3) =>
        /\ len(result) = 3
        /\ num_above(result) = 0

\* C7, amended: scrolling view, capacity 8, list of 3 entries: after any
\* sequence of up()/down() calls render returns a window of length 3, and
\* num_above = 2 - min(index, 2) for the index held just before the call:
\* 0 once index >= 2, but 2 on a fresh view.
C7_FewItems ==
    [][(strategy = "scrolling" /\ op' = "render" /\ view.capacity = 8
          /\ Len(items') = 3) =>
         /\ len(result') = 3
         /\ num_above(result') = 2 - Min(view.index, 2)]_vars

\* the unit test: four up() calls, then the three entries are rendered
C7_Witness ==
    /\ strategy = "scrolling" /\ op = "render"
    /\ view.capacity = 8 /\ Len(items) = 3
    /\ ups = 4
    /\ len(result) = 3 /\ num_above(result) = 0

\* C8, as stated: up() moves the selection one entry closer to the start
\* of the list and is a no-op on the first entry (both strategies).
C8_Original ==
    [][op' = "up" =>
         IF selection(view) = 0
         THEN view' = view
         ELSE selection(view') = selection(view) - 1]_vars

\* C8, amended: up() moves the selection one entry away from the start of
\* the list, also from the first entry.  Scrolling: skip + index grows by
\* one on every up(), and render(list), up(), render(list) selects position
\* min(p + 1, n - 1) after p, so up() changes nothing only on the last
\* entry.  Fixed: index grows by one, except at capacity - 1 where up() is a
\* no-op.
C8_UpMovesTowardsEnd ==
    [][/\ (strategy = "scrolling" /\ op' = "up") =>
             selection(view') = selection(view) + 1
       /\ (strategy = "fixed" /\ op' = "up") =>
             view'.index = Min(view.index + 1, view.capacity - 1)
       /\ (strategy = "scrolling" /\ op' = "render" /\ moves = "up"
             /\ result.kind = "NonEmpty" /\ items' = items) =>
             /\ result'.kind = "NonEmpty"
             /\ position(items, result'.selected) =
                   Min(position(items, result.selected) + 1, Len(items) - 1)]_vars

\* up() was called with the first entry selected and moved off it
C8_Witness ==
    /\ op = "up" /\ moves = "up"
    /\ result.kind = "NonEmpty"
    /\ result.selected = items[1]
    /\ Len(items) >= 2
    /\ selection(view) = 1

\* C9: scrolling up(): with index < capacity - 1 it increases index by one
\* and leaves skip alone; with index = capacity - 1 it increases skip by
\* one and leaves index alone; capacity never changes.
C9_ScrollingUpStep ==
    [][/\ (strategy = "scrolling" /\ op' = "up") =>
             /\ view.index < view.capacity - 1 =>
                   view'.index = view.index + 1 /\ view'.skip = view.skip
             /\ view.index = view.capacity - 1 =>
                   view'.skip = view.skip + 1 /\ view'.index = view.index
       /\ view'.capacity = view.capacity]_vars

\* up() panned: the cursor is on the top row and skip has grown
C9_Witness ==
    /\ strategy = "scrolling" /\ op = "up"
    /\ view.index = view.capacity - 1
    /\ view.skip >= 2

\* C10: scrolling down(): with index > 0 it decreases index by one and
\* leaves skip alone; with index = 0 it decreases skip by one, floored at
\* 0; so down() at index = 0, skip = 0 changes nothing and the next render
\* selects the first entry with num_above = min(capacity, n) - 1.
C10_ScrollingDownStep ==
    [][/\ (strategy = "scrolling" /\ op' = "down") =>
             /\ view.index > 0 =>
                   view'.index = view.index - 1 /\ view'.skip = view.skip
             /\ view.index = 0 =>
                   /\ view'.index = 0
                   /\ view'.skip = IF view.skip = 0 THEN 0 ELSE view.skip - 1
             /\ (view.index = 0 /\ view.skip = 0) => view' = view
       /\ (strategy = "scrolling" /\ op = "down" /\ op' = "render"
             /\ view.index = 0 /\ view.skip = 0 /\ items' # <<>>) =>
             /\ result'.kind = "NonEmpty"
             /\ result'.selected = items'[1]
             /\ num_above(result') = Min(view.capacity, Len(items')) - 1]_vars

\* down() was the one call after a render that had selected the first
\* entry of a list longer than the window
C10_Witness ==
    /\ strategy = "scrolling" /\ op = "down" /\ moves = "down"
    /\ result.kind = "NonEmpty"
    /\ result.selected = items[1]
    /\ Len(items) > view.capacity
    /\ view.index = 0 /\ view.skip = 0

\* the step redraws: update_matches() and render() ran to the end
Drawn == op' \in {"draw", "up", "down", "append", "backspace"} /\ ~panicked'

\* C11: Enter with a non-empty ranked list returns the payload of the entry
\* at ranked position skip + index, the entry the most recent draw returned
\* as selected; with an empty ranked list it returns nothing.
C11_Confirm ==
    [][op' = "confirm" =>
         IF matches # <<>>
         THEN /\ ~panicked'
              /\ outcome' = Some(matches[view.skip + view.index + 1].item.data)
              /\ result.kind = "NonEmpty"
              /\ result.selected = matches[view.skip + view.index + 1]
         ELSE outcome' = None]_vars

\* Enter returned the payload of an entry reached by panning
C11_Witness ==
    /\ op = "confirm"
    /\ outcome.kind = "Some"
    /\ view.skip > 0 /\ view.index > 0
    /\ outcome.data = matches[view.skip + view.index + 1].item.data

\* ms is the ranking of the items `all` under the query `term`: every
\* entry is an item the scorer accepts, with the scorer's score and
\* positions; every accepted item occurs once and no other; scores
\* descend, and equal scores keep the input order
IsRanking(ms, all, term) ==
    /\ \A k \in 1..Len(ms) :
          LET m == fuzzy_indices(ms[k].item.name, term)
          IN  /\ \E i \in 1..Len(all) : all[i] = ms[k].item
              /\ m.some
              /\ ms[k].score = m.score
              /\ ms[k].fuzzy_indices = m.positions
    /\ \A i \in 1..Len(all) :
          Cardinality({k \in 1..Len(ms) : ms[k].item = all[i]}) =
             IF fuzzy_indices(all[i].name, term).some THEN 1 ELSE 0
    /\ \A j, k \in 1..Len(ms) :
          j < k =>
             \/ ms[j].score > ms[k].score
             \/ /\ ms[j].score = ms[k].score
                /\ \E a, b \in 1..Len(all) :
                      a < b /\ all[a] = ms[j].item /\ all[b] = ms[k].item

\* C12: after update_matches the ranked list holds exactly the items the
\* scorer accepts under the current query, each once, by descending score,
\* equal scores in input order (which determines the list uniquely).
C12_Ranking == op # "new" => IsRanking(matches, all_items, search_term)

\* a query that drops an item, leaves two equal scores and moves an item
\* in front of one that precedes it in the input
C12_Witness ==
    /\ op # "new"
    /\ search_term # <<>>
    /\ Len(matches) >= 3
    /\ Len(matches) < Len(all_items)
    /\ \E j \in 1..(Len(matches) - 1) : matches[j].score = matches[j + 1].score
    /\ \E j \in 1..(Len(matches) - 1) :
          /\ matches[j].score > matches[j + 1].score
          /\ matches[j].item.data > matches[j + 1].item.data

\* the rows of the window r are the entries of ms from position v.skip on
Shows(r, v, ms) ==
    IF ms = <<>>
    THEN r = Empty
    ELSE /\ r.kind = "NonEmpty"
         /\ r.below \o <<r.selected>> \o r.above =
               SubSeq(ms, v.skip + 1, v.skip + Min(v.capacity, Len(ms) - v.skip))

\* C13: whenever the session draws, the list handed to the view is the
\* full re-rank of the item set under the query as it is after the step,
\* and the window drawn is a window over that list.
C13_DrawsCurrentRanking ==
    [][Drawn =>
         /\ IsRanking(matches', all_items', search_term')
         /\ Shows(result', view', matches')]_vars

\* an append drew a shorter list than the one drawn before
C13_Witness ==
    /\ op = "append"
    /\ ~panicked
    /\ matches # <<>>
    /\ Len(matches) < Len(all_items)
    /\ len(result) = Min(view.capacity, Len(matches))
    /\ result.selected = matches[view.skip + view.index + 1]

\* C18: find yields a payload only on Enter with a non-empty ranked list;
\* Ctrl-c, Ctrl-d, a lone Esc and Enter with no matches yield nothing.
C18_PayloadOnlyOnConfirm ==
    /\ outcome.kind = "Some" => (op = "confirm" /\ matches # <<>>)
    /\ op \in {"ctrl_c", "ctrl_d", "esc_timeout"} => outcome = None
    /\ (op = "confirm" /\ matches = <<>>) => outcome = None
    /\ outcome # Pending => op \in {"confirm", "ctrl_c", "ctrl_d", "esc_timeout"}

\* the session was left with Ctrl-c while an entry was selected
C18_Witness ==
    /\ op = "ctrl_c"
    /\ matches # <<>>
    /\ view.index > 0
    /\ outcome = None

\* C19: session up() and down() leave the query and the item set alone,
\* and the ranked list after the call equals the one before it.
C19_MoveKeepsRanking ==
    [][op' \in {"up", "down"} =>
         /\ search_term' = search_term
         /\ all_items' = all_items
         /\ matches' = matches]_vars

\* up() moved the cursor over a ranked list built for a non-empty query
C19_Witness ==
    /\ op = "up"
    /\ search_term # <<>>
    /\ Len(matches) >= 2
    /\ view.index > 0

\* C14, as stated: fixed view, render on a non-empty list shorter than
\* capacity succeeds and returns a window of exactly list.length rows, with
\* index clamped to the last valid entry.
C14_FixedShortList ==
    (strategy = "fixed" /\ op = "render" /\ items # <<>>
       /\ Len(items) < view.capacity) =>
        /\ ~panicked
        /\ result.kind = "NonEmpty"
        /\ len(result) = Len(items)
        /\ view.index <= Len(items) - 1

\* C15, as stated: fixed view, after every render on a non-empty list
\* index < min(capacity, list.length), the selected entry is the one at
\* list position index, and no entry at position >= capacity is selected
\* or shown.
C15_FixedAnchored ==
    (strategy = "fixed" /\ op = "render" /\ items # <<>>) =>
        /\ view.index < Min(view.capacity, Len(items))
        /\ result.kind = "NonEmpty"
        /\ result.selected = items[view.index + 1]
        /\ \A j \in 1..Len(result.above) :
              position(items, result.above[j]) < view.capacity
        /\ \A j \in 1..Len(result.below) :
              position(items, result.below[j]) < view.capacity

\* C16: new with capacity 0 panics and yields no view, for both
\* strategies: nothing is ever called on it; every capacity > 0 yields a
\* view with index = 0 (and skip = 0).
C16_ZeroCapacityFailsFast ==
    /\ op = "new" =>
          IF view.capacity = 0
          THEN panicked /\ view = NoView
          ELSE /\ ~panicked
               /\ view.index = 0
               /\ strategy = "scrolling" => view.skip = 0
    /\ view.capacity = 0 => (panicked /\ op = "new" /\ result = NoRender)

\* FixedView::new(0) has panicked
C16_Witness ==
    /\ strategy = "fixed"
    /\ op = "new"
    /\ view.capacity = 0
    /\ panicked

\* C17, as stated: above and below each hold the entries on one side of
\* the selection, both ordered nearest-to-farthest from the selected entry.
C17_Original ==
    result.kind = "NonEmpty" =>
        LET p == position(items, result.selected) + 1
        IN  /\ \A j \in 1..Len(result.above) : result.above[j] = items[p + j]
            /\ \A j \in 1..Len(result.below) : result.below[j] = items[p - j]

\* C17, amended: above holds the entries that follow the selection in the
\* list, ordered nearest-to-farthest from it; below holds the entries that
\* precede it, in list order, that is farthest-to-nearest: its last element
\* is the neighbour of the selected entry.
C17_AboveBelowOrder ==
    result.kind = "NonEmpty" =>
        LET p == position(items, result.selected) + 1
            b == Len(result.below)
        IN  /\ \A j \in 1..Len(result.above) : result.above[j] = items[p + j]
            /\ \A j \in 1..b : result.below[j] = items[p - b + j - 1]

\* a panned window with at least two rows on either side of the selection
C17_Witness ==
    /\ strategy = "scrolling" /\ op = "render"
    /\ view.skip > 0
    /\ Len(result.below) >= 2
    /\ Len(result.above) >= 2

\* C20: List, after any sequence of up(), down() and update(matches):
\* index < items.len(), or items is empty and index = 0; and items holds
\* the first min(capacity, matches.len()) entries of the last matches.
C20_ListInvariant ==
    /\ \/ sel_list.index < Len(sel_list.items)
       \/ sel_list.items = <<>> /\ sel_list.index = 0
    /\ Len(sel_list.items) = Min(sel_list.capacity, Len(items))
    /\ sel_list.items = SubSeq(items, 1, Len(sel_list.items))

\* update cut the matches down to capacity under a cursor on the top row
C20_Witness ==
    /\ op = "update"
    /\ Len(items) > sel_list.capacity
    /\ sel_list.index > 0
    /\ sel_list.index = Len(sel_list.items) - 1

\* C21: flattening a non-empty scrolling render with into_iter yields the
\* window top to bottom: list positions strictly decreasing and contiguous,
\* the highest shown position first and position skip last, with exactly
\* one row flagged true, the entry at position skip + index.
C21_FlattenedWindow ==
    (strategy = "scrolling" /\ op = "render" /\ result.kind = "NonEmpty") =>
        LET rows == into_iter(result)
        IN  /\ Len(rows) = len(result)
            /\ position(items, rows[Len(rows)].item) = view.skip
            /\ position(items, rows[1].item) = view.skip + Len(rows) - 1
            /\ \A j \in 1..(Len(rows) - 1) :
                  position(items, rows[j].item) = position(items, rows[j + 1].item) + 1
            /\ Cardinality({j \in 1..Len(rows) : rows[j].flag}) = 1
            /\ \A j \in 1..Len(rows) :
                  rows[j].flag <=> position(items, rows[j].item) = view.skip + view.index

\* a panned window with rows on both sides of the selection is flattened
C21_Witness ==
    /\ strategy = "scrolling" /\ op = "render" /\ result.kind = "NonEmpty"
    /\ view.skip >= 2 /\ view.index >= 2
    /\ Len(into_iter(result)) = view.capacity
    /\ into_iter(result)[view.capacity - view.index].flag
    /\ view.index < view.capacity - 1

\* C22: render is idempotent, for both strategies: when render(list) has
\* returned and is called again on the same list with no up()/down() in
\* between, the second call returns the same window and leaves index and
\* skip as they were.
C22_RenderIdempotent ==
    [][(op = "render" /\ ~panicked /\ op' = "render" /\ items' = items) =>
         /\ ~panicked'
         /\ result' = result
         /\ view' = view]_vars

\* a panned window was rendered twice in a row on the same list
C22_Witness ==
    /\ strategy = "scrolling" /\ op = "render" /\ again /\ ~panicked
    /\ result.kind = "NonEmpty"
    /\ view.skip > 0 /\ view.index > 0
    /\ Len(items) = view.skip + view.capacity

\* C23: scrolling view round trip on one list: after a render selected
\* position p < n - 1, the calls up(), render, down(), render select p
\* again; after a render selected p > 0, the calls down(), render, up(),
\* render select p again.
C23_RoundTrip ==
    Len(twin.sel) = 3 =>
        /\ (twin.calls = <<"up", "down">> /\ twin.sel[1] >= 0
              /\ twin.sel[1] < Len(items) - 1) => twin.sel[3] = twin.sel[1]
        /\ (twin.calls = <<"down", "up">> /\ twin.sel[1] > 0) =>
              twin.sel[3] = twin.sel[1]

\* up() panned the window, and down() came back to the entry by moving
\* the cursor inside the window
C23_Witness ==
    /\ twin.calls = <<"up", "down">>
    /\ Len(twin.sel) = 3
    /\ twin.sel[1] >= twin.view.capacity
    /\ twin.sel[2] = twin.sel[1] + 1
    /\ twin.sel[3] = twin.sel[1]
    /\ twin.view.capacity > 1
    /\ twin.view.index = twin.view.capacity - 2

\* C24, as stated: the render that ends any sequence of up()/down() calls
\* selects the entry that the twin, rendered after every call, has selected.
C24_Original ==
    [][op' = "render" =>
         result'.selected = ScrollingView_render(twin.view, items).render.selected]_vars

\* C24, amended: when no up() of the sequence was made with the cursor
\* already on or past the last entry of the list, the renders along the way
\* changed nothing: the view is in the twin's state and the render that
\* ends the sequence returns the twin's window.
C24_RenderOrderIrrelevant ==
    [][(op' = "render" /\ ~strayed') =>
         /\ ~panicked'
         /\ view = twin.view
         /\ view' = twin.view
         /\ result' = ScrollingView_render(twin.view, items).render]_vars

\* a sequence that panned up to the last entry and came back down ended
\* with a render
C24_Witness ==
    /\ op = "render" /\ ~panicked /\ ~strayed
    /\ result.kind = "NonEmpty"
    /\ twin.calls = <<"down", "render">>
    /\ Len(twin.sel) = 3
    /\ twin.sel[1] = Len(items) - 1
    /\ twin.sel[2] = Len(items) - 2
    /\ twin.sel[3] = twin.sel[2]
    /\ view.skip > 0

\* C25: a query edit does not move the cursor by itself: when append or
\* backspace leaves a ranked list of length L with skip + index < L and
\* (skip = 0 or skip + capacity <= L), index and skip after the edit are
\* what they were before it.
C25_EditKeepsCursor ==
    [][(op' \in {"append", "backspace"}
          /\ view.skip + view.index < Len(matches')
          /\ (view.skip = 0 \/ view.skip + view.capacity <= Len(matches'))) =>
         /\ view'.index = view.index
         /\ view'.skip = view.skip]_vars

\* an append dropped entries from the ranked list and left a panned
\* window with the cursor off its first row
C25_Witness ==
    /\ op = "append" /\ ~panicked
    /\ Len(matches) < Len(all_items)
    /\ view.skip > 0 /\ view.index > 0
    /\ view.skip + view.capacity <= Len(matches)

\* C26, as stated: backspace does not fail and removes exactly the last
\* character of the query (nothing when the query is empty), whatever the
\* characters of the query are; so append(c) then backspace() restores it.
C26_BackspaceDropsLastChar ==
    [][op' = "backspace" =>
         /\ ~panicked'
         /\ search_term' = SubSeq(search_term, 1, Max(0, Len(search_term) - 1))]_vars

\* C27, as stated: for a non-empty List, tagged_iter yields the items top
\* to bottom (the reverse of the stored order) and flags exactly one of
\* them, the item get_selected returns, for every reachable index.
C27_TaggedSelection ==
    sel_list.items # <<>> =>
        LET rows == tagged_iter(sel_list)
        IN  /\ [j \in 1..Len(rows) |-> rows[j].item] = rev(sel_list.items)
            /\ ~get_selected(sel_list).panic
            /\ Cardinality({j \in 1..Len(rows) : rows[j].flag}) = 1
            /\ \A j \in 1..Len(rows) :
                  rows[j].flag => rows[j].item = get_selected(sel_list).item
====
